---- MODULE Spec2Model ----
(***************************************************************************)
(* Model of the pre-execution safety gate in src/validate_tool_safety.py:  *)
(* the static rule checks, the whitelist store kept in                     *)
(* settings.local.json, the external classifier call and main(), which     *)
(* turns one hook request into "allow" output or no output.                *)
(*                                                                         *)
(* Commands, patterns and rule entries are the program's own strings.      *)
(* One behaviour of the model is a sequence of hook invocations (each a    *)
(* whole run of main) and direct calls of the store functions, over the    *)
(* two settings files that persist between invocations.                    *)
(***************************************************************************)
EXTENDS Integers, Sequences, FiniteSets, TLC

VARIABLES project, global, last, learned, race

vars == <<project, global, last, learned, race>>

(***************************************************************************)
(* Strings                                                                 *)
(***************************************************************************)

Upper == "ABCDEFGHIJKLMNOPQRSTUVWXYZ"
Lowercase == "abcdefghijklmnopqrstuvwxyz"

\* str.lower() on one character.
LowerChar(c) ==
  IF \E i \in 1..Len(Upper) : SubSeq(Upper, i, i) = c
  THEN LET i == CHOOSE j \in 1..Len(Upper) : SubSeq(Upper, j, j) = c
       IN  SubSeq(Lowercase, i, i)
  ELSE c

RECURSIVE Lower(_)
\* str.lower()
Lower(s) ==
  IF s = "" THEN ""
  ELSE LowerChar(SubSeq(s, 1, 1)) \o Lower(SubSeq(s, 2, Len(s)))

\* Python's `p in s` on strings.
Contains(s, p) ==
  \E i \in 1..(Len(s) - Len(p) + 1) : SubSeq(s, i, i + Len(p) - 1) = p

\* str.startswith / str.endswith
StartsWith(s, p) == Len(p) <= Len(s) /\ SubSeq(s, 1, Len(p)) = p
EndsWith(s, p) ==
  Len(p) <= Len(s) /\ SubSeq(s, Len(s) - Len(p) + 1, Len(s)) = p

RECURSIVE fnmatch(_, _)
\* fnmatch.fnmatch(name, pat) on POSIX (normcase is the identity): `*`
\* matches any run of characters, the empty one included, `?` one
\* character, anything else itself; the whole name must be consumed.
\* The patterns of the model hold no `[`.
fnmatch(name, pat) ==
  IF pat = "" THEN name = ""
  ELSE LET h    == SubSeq(pat, 1, 1)
           rest == SubSeq(pat, 2, Len(pat))
           tl   == SubSeq(name, 2, Len(name))
       IN  IF h = "*"
           THEN fnmatch(name, rest) \/ (name # "" /\ fnmatch(tl, pat))
           ELSE IF h = "?"
           THEN name # "" /\ fnmatch(tl, rest)
           ELSE name # "" /\ SubSeq(name, 1, 1) = h /\ fnmatch(tl, rest)

(***************************************************************************)
(* Static configuration                                                    *)
(***************************************************************************)

ALWAYS_SAFE_TOOLS == {"Read", "Glob", "Grep", "WebSearch", "WebFetch"}

ALWAYS_ASK_TOOLS == {"Task", "Skill"}

UNSAFE_COMMANDS ==
  {
    "rm ", "rm\t", "rmdir", "unlink", "git clean", "git reset --hard",
    "git reset --mixed", "--force", " -f ", " -rf", "-rf ", ".env", ".ssh",
    ".aws", ".gnupg", "credentials", "secrets", "/etc/passwd", "/etc/shadow",
    "sk-", "api_key=", "apikey=", "API_KEY=", "token=", "TOKEN=", "secret=",
    "SECRET=", "password=", "PASSWORD=", "passwd=", "Bearer ", "Basic ",
    "sudo ", "sudo\t", "doas ", "chmod ", "chown ", "chgrp ", "systemctl",
    "service ", "pkill ", "kill ", "killall ", "eval ", "exec ",
    "docker run", "docker exec", "kubectl run", "kubectl exec", "curl ",
    "wget ", "nc ", "netcat", "brew install", "brew upgrade", "pip install",
    "npm install", "yarn add", "pnpm install", "bun install"
  }

NEVER_WHITELIST_COMMANDS ==
  {
    "git push", "docker run", "docker exec", "kubectl exec", "kubectl run",
    "kubectl delete", "kubectl apply"
  }

SAFE_COMMAND_BASES ==
  {
    "--version", "-v", "-V", "version", "git status", "git log", "git diff",
    "git branch", "git show", "git remote", "go build", "go test", "go run",
    "go mod", "go version", "cargo build", "cargo test", "cargo run",
    "cargo check", "npm test", "npm run", "npm start", "make", "cmake",
    "pytest", "python -m pytest", "ls", "cat ", "head ", "tail ", "less ",
    "more ", "find ", "grep ", "wc ", "du ", "df "
  }

(***************************************************************************)
(* Rule checks                                                             *)
(***************************************************************************)

check_unsafe_command(command) ==
  LET cmd_lower == Lower(command)
  IN  \E pattern \in UNSAFE_COMMANDS : Contains(cmd_lower, pattern)

check_never_whitelist(command) ==
  LET cmd_lower == Lower(command)
  IN  \E pattern \in NEVER_WHITELIST_COMMANDS : Contains(cmd_lower, pattern)

check_safe_command(command) ==
  LET cmd_lower == Lower(command)
  IN  \E pattern \in SAFE_COMMAND_BASES : Contains(cmd_lower, pattern)

(***************************************************************************)
(* The commands and patterns of the model                                  *)
(***************************************************************************)

Commands ==
  { "git status",             \* SafeBase hit only
    "go test -v -race",       \* SafeBase hit only
    "git status --force",     \* Unsafe and SafeBase hit
    "rm -rf node_modules",    \* Unsafe hit only
    "git push --force",       \* Unsafe and NeverWhitelist hit
    "grep Bearer app.log",    \* holds the Unsafe entry "Bearer "; SafeBase hit
    "git push origin main",   \* NeverWhitelist hit only
    "git checkout main",      \* no hit
    "echo hi",                \* no hit
    "" }                      \* no command given

\* Patterns the classifier may suggest or append may be called with.
Patterns ==
  { "Bash(go test:*)", "Bash(git * main)", "Bash(git push:*)",
    "Bash(echo hi)", "none", "" }

\* Further commands looked up in the store: the ones test_pattern_matching
\* tries, and two for a prefix that holds a `*` itself.
LookupCommands ==
  Commands \cup
    { "go test", "go testing", "go build",
      "git diff HEAD", "git diff",
      "node --version", "--version",
      "git checkout feature", "git merge main",
      "echo a:b", "echo * x" }

\* Patterns a settings file may hold: the ones above and patterns put there
\* by the user or the host.
StoredPatterns ==
  Patterns \cup {"Bash(git diff *)", "Bash(* --version)", "Bash(echo *:*)"}

\* The three rule checks of every command of the model, evaluated once.
RuleHits ==
  [c \in Commands |->
     [unsafe |-> check_unsafe_command(c),
      never  |-> check_never_whitelist(c),
      safe   |-> check_safe_command(c)]]

\* get_code_results of the test harness: the rule classifier's verdict
\* (safe: "False" = unsafe, "True" = safe, "None" = the classifier is
\* needed) and whether whitelisting is ruled out ("none") or open ("None").
get_code_results(command) ==
  [safe |-> IF RuleHits[command].unsafe THEN "False"
            ELSE IF RuleHits[command].safe THEN "True"
            ELSE "None",
   whitelist |-> IF RuleHits[command].unsafe \/ RuleHits[command].never
                 THEN "none" ELSE "None"]

(***************************************************************************)
(* The settings files                                                      *)
(*                                                                         *)
(* A file is what a path holds: nothing, a file that cannot be read, text  *)
(* that is not JSON, JSON that is not an object, or a JSON object.  Of an  *)
(* object the model keeps what the code looks at: the keys beside          *)
(* "permissions" (extra), whether "permissions" is missing, an object or   *)
(* something else, the keys beside "allow" inside it (pextra), and "allow" *)
(* itself: missing, a list of strings, or something else.                  *)
(***************************************************************************)

File(kind, extra, perm, pextra, allowKind, allow) ==
  [kind |-> kind, extra |-> extra, perm |-> perm, pextra |-> pextra,
   allowKind |-> allowKind, allow |-> allow]

Absent     == File("absent", {}, "missing", {}, "missing", <<>>)
Unreadable == File("unreadable", {}, "missing", {}, "missing", <<>>)
NotJson    == File("notjson", {}, "missing", {}, "missing", <<>>)
NonObject  == File("nonobject", {}, "missing", {}, "missing", <<>>)

\* A well-formed settings document holding the given allow list.
Settings(extra, pextra, allow) ==
  File("object", extra, "object", pextra, "list", allow)

\* Path.exists()
Exists(file) == file.kind # "absent"

\* The file holds a JSON object whose permissions.allow is a list.
WellFormed(file) ==
  file.kind = "object" /\ file.perm = "object" /\ file.allowKind = "list"

\* The file at a path.
FileAt(path, proj, glob) == IF path = "project" THEN proj ELSE glob

\* get_settings_path without the project-local file: always the global path.
get_settings_path_always_global(proj) == "global"

\* get_settings_path: the project-local file if it exists, else the global
\* one.
get_settings_path(proj) == IF Exists(proj) THEN "project" ELSE "global"

\* PatternMatches reading a body that ends in " *" as a prefix class: the
\* text before the space is enough.
PatternMatches_bare_wildcard(pattern, command) ==
  /\ StartsWith(pattern, "Bash(")
  /\ EndsWith(pattern, ")")
  /\ LET bash_pattern == SubSeq(pattern, 6, Len(pattern) - 1)
     IN  IF EndsWith(bash_pattern, ":*")
         THEN StartsWith(command, SubSeq(bash_pattern, 1, Len(bash_pattern) - 2))
         ELSE IF EndsWith(bash_pattern, " *")
         THEN StartsWith(command, SubSeq(bash_pattern, 1, Len(bash_pattern) - 2))
         ELSE IF Contains(bash_pattern, "*")
         THEN fnmatch(command, bash_pattern)
         ELSE command = bash_pattern

\* PatternMatches testing for a `*` before it tests for the ":*" ending.
PatternMatches_glob_first(pattern, command) ==
  /\ StartsWith(pattern, "Bash(")
  /\ EndsWith(pattern, ")")
  /\ LET bash_pattern == SubSeq(pattern, 6, Len(pattern) - 1)
     IN  IF Contains(bash_pattern, "*")
         THEN fnmatch(command, bash_pattern)
         ELSE IF EndsWith(bash_pattern, ":*")
         THEN StartsWith(command, SubSeq(bash_pattern, 1, Len(bash_pattern) - 2))
         ELSE command = bash_pattern

\* PatternMatches reading a body that starts with "* " as a plain suffix
\* test on the text behind the space.
PatternMatches_tail_only(pattern, command) ==
  /\ StartsWith(pattern, "Bash(")
  /\ EndsWith(pattern, ")")
  /\ LET bash_pattern == SubSeq(pattern, 6, Len(pattern) - 1)
     IN  IF EndsWith(bash_pattern, ":*")
         THEN StartsWith(command, SubSeq(bash_pattern, 1, Len(bash_pattern) - 2))
         ELSE IF StartsWith(bash_pattern, "* ")
         THEN EndsWith(command, SubSeq(bash_pattern, 3, Len(bash_pattern)))
         ELSE IF Contains(bash_pattern, "*")
         THEN fnmatch(command, bash_pattern)
         ELSE command = bash_pattern

\* PatternMatches comparing only the text up to the first `*` of a glob.
PatternMatches_head_only(pattern, command) ==
  /\ StartsWith(pattern, "Bash(")
  /\ EndsWith(pattern, ")")
  /\ LET bash_pattern == SubSeq(pattern, 6, Len(pattern) - 1)
         star == CHOOSE i \in 1..Len(bash_pattern) :
                   /\ SubSeq(bash_pattern, i, i) = "*"
                   /\ ~Contains(SubSeq(bash_pattern, 1, i - 1), "*")
     IN  IF EndsWith(bash_pattern, ":*")
         THEN StartsWith(command, SubSeq(bash_pattern, 1, Len(bash_pattern) - 2))
         ELSE IF Contains(bash_pattern, "*")
         THEN StartsWith(command, SubSeq(bash_pattern, 1, star - 1))
         ELSE command = bash_pattern

\* One pass of the loop body of is_command_whitelisted: does this stored
\* pattern approve the command?
PatternMatches(pattern, command) ==
  /\ StartsWith(pattern, "Bash(")
  /\ EndsWith(pattern, ")")
  /\ LET bash_pattern == SubSeq(pattern, 6, Len(pattern) - 1)
     IN  IF EndsWith(bash_pattern, ":*")
         THEN StartsWith(command, SubSeq(bash_pattern, 1, Len(bash_pattern) - 2))
         ELSE IF Contains(bash_pattern, "*")
         THEN fnmatch(command, bash_pattern)
         ELSE command = bash_pattern

\* The commands of the model each pattern approves, evaluated once.
Approved ==
  [p \in StoredPatterns |-> {c \in LookupCommands : PatternMatches(p, c)}]

\* is_command_whitelisted leaving the loop after the first stored pattern.
is_command_whitelisted_first_only(command, proj, glob) ==
  LET settings_path == get_settings_path(proj)
      file == FileAt(settings_path, proj, glob)
      Res(r, rd) == [result |-> r, reads |-> rd]
  IN  IF ~Exists(file) THEN Res("false", {})
      ELSE IF file.kind = "unreadable" THEN Res("raise", {})         \* OSError
      ELSE IF file.kind = "notjson" THEN Res("false", {settings_path})
      ELSE IF file.kind = "nonobject" THEN Res("raise", {settings_path})
      ELSE IF file.perm = "missing" THEN Res("false", {settings_path})
      ELSE IF file.perm # "object" THEN Res("raise", {settings_path})
      ELSE IF file.allowKind = "missing" THEN Res("false", {settings_path})
      ELSE IF file.allowKind # "list" THEN Res("raise", {settings_path})
      ELSE IF \E i \in 1..Len(file.allow) :
                   i = 1 /\ command \in Approved[file.allow[i]]
           THEN Res("true", {settings_path})
           ELSE Res("false", {settings_path})

\* is_command_whitelisted: "true", "false", or "raise" when an exception
\* other than JSONDecodeError/KeyError leaves the function.  reads is the
\* set of paths whose text was read.
is_command_whitelisted(command, proj, glob) ==
  LET settings_path == get_settings_path(proj)
      file == FileAt(settings_path, proj, glob)
      Res(r, rd) == [result |-> r, reads |-> rd]
  IN  IF ~Exists(file) THEN Res("false", {})
      ELSE IF file.kind = "unreadable" THEN Res("raise", {})         \* OSError
      ELSE IF file.kind = "notjson" THEN Res("false", {settings_path})
      ELSE IF file.kind = "nonobject" THEN Res("raise", {settings_path})
      ELSE IF file.perm = "missing" THEN Res("false", {settings_path})
      ELSE IF file.perm # "object" THEN Res("raise", {settings_path})
      ELSE IF file.allowKind = "missing" THEN Res("false", {settings_path})
      ELSE IF file.allowKind # "list" THEN Res("raise", {settings_path})
      ELSE IF \E i \in 1..Len(file.allow) : command \in Approved[file.allow[i]]
           THEN Res("true", {settings_path})
           ELSE Res("false", {settings_path})

\* Outcomes of mkdir + write_text: done; refused before the file is touched
\* (OSError from mkdir or open); or opened, truncated and then failed.
IoOutcomes == {"ok", "denied", "truncated"}

\* AppendVeto without the check_unsafe_command early return.
AppendVeto_unsafe_unchecked(command, pattern) ==
  \/ RuleHits[command].never
  \/ pattern = "" \/ pattern = "none"

\* AppendVeto without the check_never_whitelist early return.
AppendVeto_never_unchecked(command, pattern) ==
  \/ RuleHits[command].unsafe
  \/ pattern = "" \/ pattern = "none"

\* The early returns of add_to_whitelist: the command is never to be
\* whitelisted or unsafe, or there is no pattern to add.
AppendVeto(command, pattern) ==
  \/ RuleHits[command].never
  \/ RuleHits[command].unsafe
  \/ pattern = "" \/ pattern = "none"

\* PatternPresent with the membership test lost: every pattern counts as new.
PatternPresent_never(allow_list, pattern) == FALSE

\* `pattern in allow_list`
PatternPresent(allow_list, pattern) ==
  \E i \in 1..Len(allow_list) : allow_list[i] = pattern

\* ExtendedList inserting at the front instead of appending.
ExtendedList_front(allow_list, pattern) == <<pattern>> \o allow_list

\* allow_list.append(pattern)
ExtendedList(allow_list, pattern) == Append(allow_list, pattern)

\* WrittenDocument writing a fresh document that holds the list alone.
WrittenDocument_list_only(extra, pextra, allow_list) ==
  Settings({}, {}, allow_list)

\* json.dumps(settings) as written by add_to_whitelist: the keys that were
\* read, with permissions.allow holding the extended list.
WrittenDocument(extra, pextra, allow_list) ==
  Settings(extra, pextra, allow_list)

\* add_to_whitelist.  status is "return" or "raise"; file is the content of
\* the resolved path afterwards; wrote tells whether write_text was reached.
add_to_whitelist(command, pattern, proj, glob, io) ==
  LET settings_path == get_settings_path(proj)
      file == FileAt(settings_path, proj, glob)
      Res(st, f, rd, wr) ==
        [status |-> st, path |-> settings_path, file |-> f,
         reads |-> rd, wrote |-> wr]
      \* settings after the try block is {} for an absent or non-JSON file
      extra == IF file.kind = "object" THEN file.extra ELSE {}
      \* settings.setdefault("permissions", {})
      permObject == file.kind # "object" \/ file.perm \in {"missing", "object"}
      pextra == IF file.kind = "object" /\ file.perm = "object"
                THEN file.pextra ELSE {}
      \* permissions.setdefault("allow", [])
      allowList == file.kind # "object" \/ file.perm = "missing"
                   \/ file.allowKind \in {"missing", "list"}
      allow_list == IF WellFormed(file) THEN file.allow ELSE <<>>
      rd == IF Exists(file) THEN {settings_path} ELSE {}
  IN  IF AppendVeto(command, pattern) THEN Res("return", file, {}, FALSE)
      ELSE IF file.kind = "unreadable" THEN Res("raise", file, {}, FALSE)
      ELSE IF file.kind = "nonobject" THEN Res("raise", file, rd, FALSE)
      ELSE IF ~permObject THEN Res("raise", file, rd, FALSE)
      ELSE IF ~allowList THEN Res("raise", file, rd, FALSE)
      ELSE IF PatternPresent(allow_list, pattern)
           THEN Res("return", file, rd, FALSE)
      ELSE IF io = "denied" THEN Res("raise", file, rd, FALSE)
      ELSE IF io = "truncated" THEN Res("raise", NotJson, rd, TRUE)
      ELSE Res("return",
               WrittenDocument(extra, pextra,
                               ExtendedList(allow_list, pattern)),
               rd, TRUE)

(***************************************************************************)
(* The external classifier                                                 *)
(*                                                                         *)
(* A response is what running the `claude` CLI delivers.  proc tells how   *)
(* far the call gets; a "verdict" is a reply whose result text holds a     *)
(* JSON object, with the three fields main reads from it.  An optional     *)
(* field is <<>> when the key is missing and <<value>> when present.       *)
(***************************************************************************)

Response(proc, safe, reason, pattern) ==
  [proc |-> proc, safe |-> safe, reason |-> reason, pattern |-> pattern]

\* dict.get(key, default) on an optional field
Get(field, default) == IF field = <<>> THEN default ELSE field[1]

\* Python truth of the "safe" value: true, or a non-empty string such as
\* "false"; false and the default of a missing key are falsy.
Truthy(safe) == safe \in {"true", "string"}

\* query_claude: "dict" with the parsed reply, "none" for the failures it
\* catches or detects, "raise" for the exceptions it lets through.
query_claude(resp) ==
  CASE resp.proc = "notfound"        -> "none"   \* FileNotFoundError, caught
    [] resp.proc = "oserror"         -> "raise"  \* other OSError from run()
    [] resp.proc = "timeout"         -> "none"   \* TimeoutExpired, caught
    [] resp.proc = "nonzero"         -> "none"   \* returncode != 0
    [] resp.proc = "notjson"         -> "none"   \* stdout: JSONDecodeError
    [] resp.proc = "nonobject"       -> "raise"  \* stdout JSON, no .get
    [] resp.proc = "noresult"        -> "none"   \* "" has no "{"
    [] resp.proc = "resultnonstring" -> "raise"  \* result has no .find
    [] resp.proc = "nobraces"        -> "none"   \* no {...} in the text
    [] resp.proc = "badinner"        -> "none"   \* {...} is not JSON
    [] resp.proc = "verdict"         -> "dict"

\* make_decision: the hook response, or None
make_decision(safe, reason) ==
  IF safe THEN [permissionDecision |-> "allow",
                permissionDecisionReason |-> reason]
  ELSE [permissionDecision |-> "none", permissionDecisionReason |-> ""]

(***************************************************************************)
(* main                                                                    *)
(*                                                                         *)
(* input: what stdin holds.  shape is "unparseable" (not JSON),            *)
(* "nonobject" (JSON without .get) or "object"; tool_name and command are  *)
(* what the two .get calls return ("" when the key is missing).            *)
(*                                                                         *)
(* The result tells how the process ends: "Allow" (the allow decision is   *)
(* printed), "Defer" (exit 0, nothing printed) or "Crash" (an uncaught     *)
(* exception: nothing printed, traceback, exit status 1), together with    *)
(* what was called on the way and the two files afterwards.                *)
(***************************************************************************)

Input(shape, tool_name, command) ==
  [shape |-> shape, tool_name |-> tool_name, command |-> command]

Result(outcome, reason, llm, lookup, add, rd, wr, pr, gl) ==
  [outcome |-> outcome, reason |-> reason, rulesCalled |-> FALSE,
   llmCalled |-> llm, lookupCalled |-> lookup, appendCalled |-> add,
   reads |-> rd, wrote |-> wr, project |-> pr, global |-> gl]

\* The result of an invocation that ran the rule checks.
RulesChecked(r) == [r EXCEPT !.rulesCalled = TRUE]

\* BashChecks with the safe check ahead of the unsafe check.
BashChecks_safe_first(command, proj, glob) ==
  LET wl == is_command_whitelisted(command, proj, glob)
      End(outcome, reason, lookup, rd) ==
        RulesChecked(Result(outcome, reason, FALSE, lookup, FALSE, rd, FALSE,
                            proj, glob))
  IN  IF RuleHits[command].safe
      THEN End("Allow",
               make_decision(TRUE, "Code safety check: known safe command")
                 .permissionDecisionReason,
               FALSE, {})
      ELSE IF RuleHits[command].unsafe THEN End("Defer", "", FALSE, {})
      ELSE IF wl.result = "raise" THEN End("Crash", "", TRUE, wl.reads)
      ELSE IF wl.result = "true" THEN End("Defer", "", TRUE, wl.reads)
      ELSE End("continue", "", TRUE, wl.reads)

\* BashChecks with the whitelist lookup ahead of the safe check.
BashChecks_lookup_first(command, proj, glob) ==
  LET wl == is_command_whitelisted(command, proj, glob)
      End(outcome, reason, lookup, rd) ==
        RulesChecked(Result(outcome, reason, FALSE, lookup, FALSE, rd, FALSE,
                            proj, glob))
  IN  IF RuleHits[command].unsafe THEN End("Defer", "", FALSE, {})
      ELSE IF wl.result = "raise" THEN End("Crash", "", TRUE, wl.reads)
      ELSE IF wl.result = "true" THEN End("Defer", "", TRUE, wl.reads)
      ELSE IF RuleHits[command].safe
           THEN End("Allow",
                    make_decision(TRUE, "Code safety check: known safe command")
                      .permissionDecisionReason,
                    TRUE, wl.reads)
      ELSE End("continue", "", TRUE, wl.reads)

\* BashChecks answering a whitelisted command with its own allow.
BashChecks_allow_whitelisted(command, proj, glob) ==
  LET wl == is_command_whitelisted(command, proj, glob)
      End(outcome, reason, lookup, rd) ==
        RulesChecked(Result(outcome, reason, FALSE, lookup, FALSE, rd, FALSE,
                            proj, glob))
  IN  IF RuleHits[command].unsafe THEN End("Defer", "", FALSE, {})
      ELSE IF RuleHits[command].safe
           THEN End("Allow",
                    make_decision(TRUE, "Code safety check: known safe command")
                      .permissionDecisionReason,
                    FALSE, {})
      ELSE IF wl.result = "raise" THEN End("Crash", "", TRUE, wl.reads)
      ELSE IF wl.result = "true"
           THEN End("Allow", make_decision(TRUE, "whitelisted")
                               .permissionDecisionReason, TRUE, wl.reads)
      ELSE End("continue", "", TRUE, wl.reads)

\* The code-based checks main runs on a Bash command.  outcome is
\* "continue" when none of them ends the invocation.
BashChecks(command, proj, glob) ==
  LET wl == is_command_whitelisted(command, proj, glob)
      End(outcome, reason, lookup, rd) ==
        RulesChecked(Result(outcome, reason, FALSE, lookup, FALSE, rd, FALSE,
                            proj, glob))
  IN  IF RuleHits[command].unsafe THEN End("Defer", "", FALSE, {})
      ELSE IF RuleHits[command].safe
           THEN End("Allow",
                    make_decision(TRUE, "Code safety check: known safe command")
                      .permissionDecisionReason,
                    FALSE, {})
      ELSE IF wl.result = "raise" THEN End("Crash", "", TRUE, wl.reads)
      ELSE IF wl.result = "true" THEN End("Defer", "", TRUE, wl.reads)
      ELSE End("continue", "", TRUE, wl.reads)

\* The rest of main: the classifier is asked, a safe Bash command is put on
\* the whitelist, and the decision is printed.  lookup and rd0 tell what
\* the Bash checks did before.
Fallback(tool_name, command, resp, io, lookup, rd0, proj, glob) ==
  LET llm_result == query_claude(resp)
      safe == Truthy(resp.safe)
      reason == Get(resp.reason, "LLM assessment")
      pattern == Get(resp.pattern, "none")
      adds == safe /\ tool_name = "Bash" /\ command # "" /\ pattern # ""
      add == add_to_whitelist(command, pattern, proj, glob, io)
      decision == make_decision(safe, "LLM assessment: " \o reason)
      pr == IF adds /\ add.path = "project" THEN add.file ELSE proj
      gl == IF adds /\ add.path = "global" THEN add.file ELSE glob
      rd == IF adds THEN rd0 \cup add.reads ELSE rd0
      wr == adds /\ add.wrote
  IN  IF llm_result = "raise"
      THEN Result("Crash", "", TRUE, lookup, FALSE, rd0, FALSE, proj, glob)
      ELSE IF llm_result = "none"
      THEN Result("Defer", "", TRUE, lookup, FALSE, rd0, FALSE, proj, glob)
      ELSE IF adds /\ add.status = "raise"
      THEN Result("Crash", "", TRUE, lookup, TRUE, rd, wr, pr, gl)
      ELSE IF decision.permissionDecision = "allow"
      THEN Result("Allow", decision.permissionDecisionReason,
                  TRUE, lookup, adds, rd, wr, pr, gl)
      ELSE Result("Defer", "", TRUE, lookup, adds, rd, wr, pr, gl)

\* main without the ALWAYS_ASK_TOOLS exit.
main_ask_unchecked(input, resp, io, proj, glob) ==
  LET tool_name == input.tool_name
      command == input.command
      Exit(outcome) ==
        Result(outcome, "", FALSE, FALSE, FALSE, {}, FALSE, proj, glob)
      checks == BashChecks(command, proj, glob)
  IN  IF input.shape = "unparseable" THEN Exit("Defer")
      ELSE IF input.shape = "nonobject" THEN Exit("Crash")
      ELSE IF tool_name \in ALWAYS_SAFE_TOOLS THEN Exit("Defer")
      ELSE IF tool_name = "Bash" /\ checks.outcome # "continue" THEN checks
      ELSE IF tool_name = "Bash"
           THEN RulesChecked(Fallback(tool_name, command, resp, io,
                                      checks.lookupCalled, checks.reads,
                                      proj, glob))
      ELSE Fallback(tool_name, command, resp, io, FALSE, {}, proj, glob)

main(input, resp, io, proj, glob) ==
  LET tool_name == input.tool_name
      command == input.command
      Exit(outcome) ==
        Result(outcome, "", FALSE, FALSE, FALSE, {}, FALSE, proj, glob)
      checks == BashChecks(command, proj, glob)
  IN  IF input.shape = "unparseable" THEN Exit("Defer")
      ELSE IF input.shape = "nonobject" THEN Exit("Crash")
      ELSE IF tool_name \in ALWAYS_SAFE_TOOLS THEN Exit("Defer")
      ELSE IF tool_name \in ALWAYS_ASK_TOOLS THEN Exit("Defer")
      ELSE IF tool_name = "Bash" /\ checks.outcome # "continue" THEN checks
      ELSE IF tool_name = "Bash"
           THEN RulesChecked(Fallback(tool_name, command, resp, io,
                                      checks.lookupCalled, checks.reads,
                                      proj, glob))
      ELSE Fallback(tool_name, command, resp, io, FALSE, {}, proj, glob)

(***************************************************************************)
(* The inputs of the model                                                 *)
(***************************************************************************)

\* The longest allow list the model lets a file grow to.
MaxAllow == 2

Tools ==
  ALWAYS_SAFE_TOOLS \cup ALWAYS_ASK_TOOLS
    \cup {"Bash", "Write", "Edit", "NotebookEdit", "TodoWrite", ""}

Inputs ==
  {Input("unparseable", "", ""), Input("nonobject", "", "")}
    \cup {Input("object", t, "") : t \in Tools \ {"Bash"}}
    \cup {Input("object", "Bash", c) : c \in Commands}

NoResponse == Response("unused", "missing", <<>>, <<>>)

Responses ==
  {Response(p, "missing", <<>>, <<>>) :
     p \in {"notfound", "oserror", "timeout", "nonzero", "notjson",
            "nonobject", "noresult", "resultnonstring", "nobraces",
            "badinner"}}
    \cup {Response("verdict", s, r, p) :
            s \in {"true", "false", "missing", "string"},
            r \in {<<>>, <<"ok">>},
            p \in {<<>>} \cup {<<q>> : q \in Patterns}}

ProjectFiles ==
  {Absent, Settings({"env"}, {"deny"}, <<"Bash(go test:*)">>)}

GlobalFiles ==
  { Absent, Unreadable, NotJson, NonObject,
    File("object", {"model"}, "missing", {}, "missing", <<>>),
    File("object", {}, "nonobject", {}, "missing", <<>>),
    File("object", {}, "object", {"deny"}, "missing", <<>>),
    File("object", {}, "object", {}, "nonlist", <<>>),
    Settings({}, {}, <<>>),
    Settings({"model"}, {"deny"}, <<"Bash(git * main)">>),
    Settings({}, {}, <<"Bash(git diff *)">>),
    Settings({}, {}, <<"Bash(* --version)">>),
    Settings({}, {}, <<"Bash(echo *:*)">>) }

(***************************************************************************)
(* State machine                                                           *)
(*                                                                         *)
(* project and global are the two settings files.  last records the        *)
(* operation that has just ended: its inputs as far as the code consumed   *)
(* them, how it ended, what it called, and the files before it.  An        *)
(* operation starts only when the record of the one before has been        *)
(* cleared (Consume): invocations are one-shot processes run one after     *)
(* the other, and nothing but the two files passes from one to the next.   *)
(*                                                                         *)
(* learned is a history variable the program does not have: the pairs of   *)
(* command and pattern that earlier invocations put into the store on a    *)
(* safe=true verdict, the pattern matching the command.  It is kept under  *)
(* SpecLearn only.                                                         *)
(*                                                                         *)
(* race holds the processes that run add_to_whitelist at the same time     *)
(* under SpecRace (below); everywhere else no such process exists.         *)
(***************************************************************************)

Last(op, input, pattern, resp, io, r, pr, gl) ==
  [op |-> op, input |-> input, pattern |-> pattern, resp |-> resp,
   io |-> io, outcome |-> r.outcome, reason |-> r.reason,
   rulesCalled |-> r.rulesCalled, llmCalled |-> r.llmCalled, lookupCalled |-> r.lookupCalled,
   appendCalled |-> r.appendCalled, reads |-> r.reads, wrote |-> r.wrote,
   preProject |-> pr, preGlobal |-> gl]

Nothing ==
  [outcome |-> "", reason |-> "", rulesCalled |-> FALSE,
   llmCalled |-> FALSE, lookupCalled |-> FALSE, appendCalled |-> FALSE, reads |-> {},
   wrote |-> FALSE]

Idle ==
  Last("none", Input("", "", ""), "", NoResponse, "ok", Nothing,
       Absent, Absent)

\* No process is inside add_to_whitelist.
NoRace == [size |-> 0, writer |-> 0, proc |-> <<>>]

Init ==
  /\ project \in ProjectFiles
  /\ global \in GlobalFiles
  /\ last = Idle
  /\ learned = {}
  /\ race = NoRace

WithinBound(file) == Len(file.allow) <= MaxAllow

\* One hook invocation: main() from reading stdin to exit.
Decide ==
  /\ last = Idle
  /\ \E input \in Inputs :
       \E resp \in IF main(input, Response("notfound", "missing", <<>>, <<>>),
                          "ok", project, global).llmCalled
                   THEN Responses ELSE {NoResponse} :
         \E io \in IF main(input, resp, "ok", project, global).wrote
                   THEN IoOutcomes ELSE {"ok"} :
           LET r == main(input, resp, io, project, global)
           IN  /\ WithinBound(r.project) /\ WithinBound(r.global)
               /\ project' = r.project
               /\ global' = r.global
               /\ last' = Last("decide", input, "", resp, io, r,
                               project, global)
               /\ UNCHANGED <<learned, race>>

\* A direct call of add_to_whitelist(command, pattern).
AppendCall ==
  /\ last = Idle
  /\ \E command \in Commands, pattern \in Patterns :
       \E io \in IF add_to_whitelist(command, pattern, project, global,
                                     "ok").wrote
                 THEN IoOutcomes ELSE {"ok"} :
         LET a == add_to_whitelist(command, pattern, project, global, io)
             r == [Nothing EXCEPT !.outcome = a.status,
                                  !.rulesCalled = TRUE,
                                  !.appendCalled = TRUE,
                                  !.reads = a.reads, !.wrote = a.wrote]
         IN  /\ WithinBound(a.file)
             /\ project' = IF a.path = "project" THEN a.file ELSE project
             /\ global' = IF a.path = "global" THEN a.file ELSE global
             /\ last' = Last("append", Input("", "", command), pattern,
                             NoResponse, io, r, project, global)
             /\ UNCHANGED <<learned, race>>

\* A direct call of is_command_whitelisted(command).
LookupCall ==
  /\ last = Idle
  /\ \E command \in LookupCommands :
       LET w == is_command_whitelisted(command, project, global)
           r == [Nothing EXCEPT !.outcome = w.result, !.lookupCalled = TRUE,
                                !.reads = w.reads]
       IN  /\ UNCHANGED <<project, global, learned, race>>
           /\ last' = Last("lookup", Input("", "", command), "", NoResponse,
                           "ok", r, project, global)

\* A call of get_code_results: the rule checks alone.
ClassifyCall ==
  /\ last = Idle
  /\ \E command \in Commands :
       LET g == get_code_results(command)
           r == [Nothing EXCEPT !.outcome = g.safe, !.reason = g.whitelist,
                                !.rulesCalled = TRUE]
       IN  /\ UNCHANGED <<project, global, learned, race>>
           /\ last' = Last("classify", Input("", "", command), "",
                           NoResponse, "ok", r, project, global)

\* What the invocation recorded in last has taught the store: the command
\* and the pattern of a safe=true verdict on a Bash command, if the pattern
\* matches the command and add_to_whitelist wrote it.
Taught ==
  IF /\ last.op = "decide"
     /\ last.input.tool_name = "Bash"
     /\ last.llmCalled
     /\ last.resp.proc = "verdict" /\ last.resp.safe = "true"
     /\ last.appendCalled /\ last.wrote
     /\ last.outcome = "Allow"
     /\ last.input.command \in Approved[Get(last.resp.pattern, "none")]
  THEN {<<last.input.command, Get(last.resp.pattern, "none")>>}
  ELSE {}

\* The caller has taken the outcome; the files stay as they are.
Consume ==
  /\ last # Idle
  /\ last' = Idle
  /\ UNCHANGED <<project, global, learned, race>>

\* Consume, with what the invocation taught the store put on record; a
\* pair stays on record as long as the store holds its pattern.
Remember ==
  /\ last # Idle
  /\ last' = Idle
  /\ learned' =
       LET file == FileAt(get_settings_path(project), project, global)
       IN  {lp \in learned \cup Taught :
              WellFormed(file) /\ PatternPresent(file.allow, lp[2])}
  /\ UNCHANGED <<project, global, race>>

Next == Decide \/ AppendCall \/ LookupCall \/ ClassifyCall \/ Consume

Spec == Init /\ [][Next]_vars

\* Hook invocations alone, one after the other, with the record of what
\* they taught the store.
NextDecision == Decide \/ Remember

SpecLearn == Init /\ [][NextDecision]_vars

\* Hook invocations alone, starting with no pattern stored: no settings
\* file, or a global file whose list is empty.
InitEmpty ==
  /\ project = Absent
  /\ global \in {Absent, Settings({}, {}, <<>>)}
  /\ last = Idle
  /\ learned = {}
  /\ race = NoRace

SpecEmpty == InitEmpty /\ [][NextDecision]_vars

(***************************************************************************)
(* Two processes in add_to_whitelist at the same time                      *)
(*                                                                         *)
(* Two hook processes have each got a safe=true verdict for an eligible    *)
(* command and run add_to_whitelist on the global file, with nothing to    *)
(* keep them apart (the code takes no lock and writes in place).  The      *)
(* steps of one process are the system calls of lines 205-223: the file is *)
(* read (exists, read_text), and Path.write_text opens it for writing,     *)
(* which empties it, then writes the whole document from the start of the  *)
(* file.  race.proc[p] is where process p stands, the list it has read     *)
(* with its own pattern added; race.size is the length of the file since   *)
(* it was last emptied and race.writer the process that wrote last.        *)
(***************************************************************************)

Procs == {1, 2}

\* The patterns the two processes add.
RacePatterns == Patterns \ {"", "none"}

RECURSIVE SumLen(_)
SumLen(list) ==
  IF list = <<>> THEN 0 ELSE Len(Head(list)) + 10 + SumLen(Tail(list))

\* The length of json.dumps(settings, indent=2) for a document that holds
\* permissions.allow alone, the list not empty: for each pattern six of
\* indent, two quotes, a comma and a newline, and 46 for the rest (the
\* last pattern has no comma).
DocLen(allow_list) == 46 + SumLen(allow_list)

InitRace ==
  /\ project = Absent
  /\ global \in {Absent, Settings({}, {}, <<>>),
                 Settings({}, {}, <<"Bash(go test:*)">>)}
  /\ last = Idle
  /\ learned = {}
  /\ race \in {[size |-> 0, writer |-> 0,
                 proc |-> [p \in Procs |->
                             [pc |-> "start", pattern |-> pat[p],
                              allow_list |-> <<>>]]] :
                  pat \in [Procs -> RacePatterns]}

\* Lines 205-220: the file is read and parsed, an absent file or one that is
\* not JSON counting as empty; a pattern that is there ends the call.
RaceRead(p) ==
  /\ race.proc # <<>>
  /\ race.proc[p].pc = "start"
  /\ LET allow_list == IF WellFormed(global) THEN global.allow ELSE <<>>
         pattern == race.proc[p].pattern
     IN  race' =
           IF PatternPresent(allow_list, pattern)
           THEN [race EXCEPT !.proc[p].pc = "done"]
           ELSE [race EXCEPT !.proc[p].pc = "read",
                             !.proc[p].allow_list =
                                ExtendedList(allow_list, pattern)]
  /\ UNCHANGED <<project, global, last, learned>>

\* Lines 222-223, first half: write_text opens the file for writing, which
\* creates or empties it.
RaceOpen(p) ==
  /\ race.proc # <<>>
  /\ race.proc[p].pc = "read"
  /\ global' = NotJson
  /\ race' = [race EXCEPT !.proc[p].pc = "open", !.size = 0]
  /\ UNCHANGED <<project, last, learned>>

\* Line 223, second half: the document is written from the start of the
\* file.  What another process wrote since this one emptied the file stays
\* where this document does not reach: a longer text keeps its tail and the
\* file is no JSON document any more.
RaceWrite(p) ==
  /\ race.proc # <<>>
  /\ race.proc[p].pc = "open"
  /\ LET mine == DocLen(race.proc[p].allow_list)
     IN  /\ global' = IF race.size > mine THEN NotJson
                      ELSE WrittenDocument({}, {}, race.proc[p].allow_list)
         /\ race' = [race EXCEPT !.proc[p].pc = "done",
                                 !.size = IF race.size > mine
                                          THEN race.size ELSE mine,
                                 !.writer = p]
  /\ UNCHANGED <<project, last, learned>>

NextRace == \E p \in Procs : RaceRead(p) \/ RaceOpen(p) \/ RaceWrite(p)

SpecRace == InitRace /\ [][NextRace]_vars

(***************************************************************************)
(* Properties                                                              *)
(*                                                                         *)
(* They are stated about the operation that has just ended (last) and the  *)
(* files before and after it.                                              *)
(***************************************************************************)

Cmd == last.input.command

BashDecision ==
  /\ last.op = "decide"
  /\ last.input.shape = "object"
  /\ last.input.tool_name = "Bash"

StoreUnchanged == project = last.preProject /\ global = last.preGlobal

\* The file the operation resolved, before and after it.
PreFile ==
  FileAt(get_settings_path(last.preProject), last.preProject, last.preGlobal)
PostFile == FileAt(get_settings_path(last.preProject), project, global)

\* The pattern list a reader finds in a file.
Stored(file) == IF WellFormed(file) THEN file.allow ELSE <<>>

Count(p, list) == Cardinality({i \in 1..Len(list) : list[i] = p})

\* What a lookup of the command answers on the files before the operation.
LookupBefore ==
  is_command_whitelisted(Cmd, last.preProject, last.preGlobal).result

\* The classifier answered with a verdict whose safe field is true.
SafeVerdict == last.resp.proc = "verdict" /\ last.resp.safe = "true"

\* The pattern add_to_whitelist was called with, and whether the call
\* returned (an invocation that did not crash after calling it).
AppendedPattern ==
  IF last.op = "append" THEN last.pattern ELSE Get(last.resp.pattern, "none")
AppendReturned ==
  last.appendCalled /\ last.outcome \in {"return", "Allow", "Defer"}
Eligible ==
  /\ ~RuleHits[Cmd].never
  /\ ~RuleHits[Cmd].unsafe
  /\ AppendedPattern \notin {"", "none"}

\* The command holds an entry of the Unsafe rule set as it is listed.
HoldsUnsafeEntry(command) ==
  \E entry \in UNSAFE_COMMANDS : Contains(command, entry)

\* C1: every command that contains an Unsafe rule-set substring is
\* classified Unsafe by the rule classifier, whatever SafeBase substrings
\* it also contains.
C1_UnsafeDominates ==
  (last.op = "classify" /\ HoldsUnsafeEntry(Cmd)) => last.outcome = "False"

\* C2: a Bash command the rule classifier flags Unsafe is deferred: no
\* allow output, no classifier call, no whitelist write, whatever the
\* store holds and whatever the classifier would answer.
C2_UnsafeVeto ==
  (BashDecision /\ RuleHits[Cmd].unsafe)
    => /\ last.outcome = "Defer"
       /\ ~last.llmCalled
       /\ ~last.appendCalled
       /\ ~last.wrote
       /\ StoreUnchanged

\* An Unsafe command that a stored pattern matches has been deferred.
C2_Witness ==
  /\ BashDecision
  /\ RuleHits[Cmd].unsafe
  /\ LookupBefore = "true"
  /\ last.outcome = "Defer"

\* C3: add_to_whitelist called directly for a command that hits the
\* NeverWhitelist or the Unsafe rule set leaves both files exactly as they
\* were: nothing is read, created or written.
C3_VetoedAppendNoOp ==
  (last.op = "append" /\ (RuleHits[Cmd].never \/ RuleHits[Cmd].unsafe))
    => /\ last.outcome = "return"
       /\ last.reads = {}
       /\ ~last.wrote
       /\ StoreUnchanged

\* A vetoed command was passed with a valid pattern the store did not hold,
\* and the file that did not exist still does not.
C3_Witness ==
  /\ last.op = "append"
  /\ RuleHits[Cmd].never \/ RuleHits[Cmd].unsafe
  /\ last.pattern = "Bash(git push:*)"
  /\ ~Exists(PreFile)
  /\ ~Exists(PostFile)
  /\ last.outcome = "return"

\* C4 as stated: a Bash command classified Safe is allowed with the reason
\* "known safe command", without classifier call, store lookup or write.
C4_SafeAllowedAsStated ==
  (BashDecision /\ ~RuleHits[Cmd].unsafe /\ RuleHits[Cmd].safe)
    => /\ last.outcome = "Allow"
       /\ last.reason = "known safe command"
       /\ ~last.llmCalled
       /\ ~last.lookupCalled
       /\ last.reads = {}
       /\ ~last.wrote
       /\ StoreUnchanged

\* C4 amended: a Bash command classified Safe is allowed with the reason
\* "Code safety check: known safe command", without classifier call, store
\* lookup or write.
C4_SafeAllowed ==
  (BashDecision /\ ~RuleHits[Cmd].unsafe /\ RuleHits[Cmd].safe)
    => /\ last.outcome = "Allow"
       /\ last.reason = "Code safety check: known safe command"
       /\ ~last.llmCalled
       /\ ~last.lookupCalled
       /\ last.reads = {}
       /\ ~last.wrote
       /\ StoreUnchanged

\* "git status" was allowed over a settings file whose lookup would raise.
C4_Witness ==
  /\ BashDecision
  /\ Cmd = "git status"
  /\ LookupBefore = "raise"
  /\ last.outcome = "Allow"

\* C5 as stated: a Bash command that a stored pattern matches reaches the
\* store lookup and is deferred, never allowed.
C5_WhitelistedDefersAsStated ==
  (BashDecision /\ LookupBefore = "true")
    => last.outcome = "Defer" /\ (~RuleHits[Cmd].unsafe => last.lookupCalled)

\* C5 amended: a Bash command that a stored pattern matches is deferred
\* without a classifier call unless the rule classifier classifies it Safe;
\* if it has no rule hit it reaches the lookup, and if it is Safe it is
\* allowed before the store is consulted.
C5_WhitelistedDefers ==
  (BashDecision /\ LookupBefore = "true")
    => IF ~RuleHits[Cmd].unsafe /\ RuleHits[Cmd].safe
       THEN last.outcome = "Allow" /\ ~last.lookupCalled
       ELSE /\ last.outcome = "Defer"
            /\ ~last.llmCalled
            /\ StoreUnchanged
            /\ (~RuleHits[Cmd].unsafe => last.lookupCalled)

\* "git checkout main" met the stored Bash(git * main) and was deferred at
\* the lookup.
C5_Witness ==
  /\ BashDecision
  /\ Cmd = "git checkout main"
  /\ PatternPresent(Stored(PreFile), "Bash(git * main)")
  /\ last.lookupCalled
  /\ last.outcome = "Defer"

C7_ClassifierFailureDefers ==
  (last.op = "decide" /\ last.llmCalled /\ ~SafeVerdict)
    => last.outcome = "Defer" /\ StoreUnchanged

\* C8: when the classifier returns safe=true for a Bash command and the
\* write of the whitelist fails, the decision is still Allow and the store
\* merely does not grow.
C8_PersistFailureKeepsAllow ==
  (BashDecision /\ SafeVerdict /\ last.appendCalled /\ last.io # "ok")
    => last.outcome = "Allow" /\ Stored(PostFile) = Stored(PreFile)

\* C9: an append of an eligible command and pattern that returns leaves
\* the pattern in the store exactly once if it was not there, and as it
\* was if it was there; in the second case the file is not rewritten.
C9_AppendIdempotent ==
  (AppendReturned /\ Eligible)
    => /\ Count(AppendedPattern, Stored(PostFile))
            = IF Count(AppendedPattern, Stored(PreFile)) = 0 THEN 1
              ELSE Count(AppendedPattern, Stored(PreFile))
       /\ Count(AppendedPattern, Stored(PreFile)) > 0
            => ~last.wrote /\ StoreUnchanged

\* An eligible pattern that the store already held was appended again.
C9_Witness ==
  /\ last.op = "append"
  /\ AppendReturned /\ Eligible
  /\ Count(last.pattern, Stored(PreFile)) = 1
  /\ Count(last.pattern, Stored(PostFile)) = 1
  /\ ~last.wrote

\* C10: an operation that returns on a well-formed store leaves a
\* well-formed store whose list is the previous list, unchanged and in
\* order, followed by at most the one appended pattern, which the previous
\* list did not hold.
C10_AppendOnlyRoundTrip ==
  (/\ last.op \in {"decide", "append", "lookup"}
   /\ last.outcome \notin {"raise", "Crash"}
   /\ WellFormed(PreFile))
    => /\ WellFormed(PostFile)
       /\ \/ Stored(PostFile) = Stored(PreFile)
          \/ /\ last.appendCalled
             /\ Stored(PostFile) = Stored(PreFile) \o <<AppendedPattern>>
             /\ Count(AppendedPattern, Stored(PreFile)) = 0

\* A pattern was appended behind one that was stored before.
C10_Witness ==
  /\ AppendReturned
  /\ last.wrote
  /\ Len(Stored(PreFile)) >= 1
  /\ Stored(PostFile) = Stored(PreFile) \o <<AppendedPattern>>
  /\ is_command_whitelisted(Cmd, project, global).result \in {"true", "false"}

\* The command holds an entry of the rule set, written as listed or in any
\* other letter case.
HoldsInAnyCase(command, entries) ==
  \E entry \in entries : Contains(Lower(command), Lower(entry))

\* HoldsInAnyCase of every command of the model, evaluated once.
AnyCaseHits ==
  [c \in Commands |->
     [unsafe |-> HoldsInAnyCase(c, UNSAFE_COMMANDS),
      never  |-> HoldsInAnyCase(c, NEVER_WHITELIST_COMMANDS),
      safe   |-> HoldsInAnyCase(c, SAFE_COMMAND_BASES)]]

\* C11: rule-set membership is case-insensitive: a command that holds an
\* entry of the Unsafe, NeverWhitelist or SafeBase rule set, as listed or
\* in any other letter case, gets a hit from the corresponding rule check.
C11_CaseInsensitiveMembership ==
  last.op = "classify"
    => /\ AnyCaseHits[Cmd].unsafe => RuleHits[Cmd].unsafe
       /\ AnyCaseHits[Cmd].never => RuleHits[Cmd].never
       /\ AnyCaseHits[Cmd].safe => RuleHits[Cmd].safe

\* The text between "Bash(" and ")" of a stored pattern ("" if the pattern
\* is not of that form).
Body(pattern) ==
  IF StartsWith(pattern, "Bash(") /\ EndsWith(pattern, ")")
  THEN SubSeq(pattern, 6, Len(pattern) - 1)
  ELSE ""

\* Literal text: none of the characters a glob treats specially.
Literal(s) ==
  s # "" /\ ~Contains(s, "*") /\ ~Contains(s, "?") /\ ~Contains(s, "[")

\* The store the lookup resolved holds exactly this one pattern.
OnlyStored(pattern) == WellFormed(PreFile) /\ Stored(PreFile) = <<pattern>>

LookupOn(pattern) ==
  /\ last.op = "lookup"
  /\ WellFormed(PreFile)
  /\ PatternPresent(Stored(PreFile), pattern)

\* Bash(<cmd> *) with a literal <cmd>, and that <cmd>.
IsPrefixWildcard(pattern) ==
  /\ EndsWith(Body(pattern), " *")
  /\ Literal(SubSeq(Body(pattern), 1, Len(Body(pattern)) - 2))
WildcardCmd(pattern) == SubSeq(Body(pattern), 1, Len(Body(pattern)) - 2)
PrefixWildcards == {p \in StoredPatterns : IsPrefixWildcard(p)}

\* C12: prefix-wildcard matching: for every stored pattern Bash(<cmd> *),
\* <cmd> literal text, a lookup answers true for every command that is
\* <cmd>, one space and a continuation, and a store holding only that
\* pattern answers false for the bare <cmd>.
C12_PrefixWildcard ==
  last.op = "lookup" =>
  \A p \in PrefixWildcards :
    LookupOn(p)
      => /\ StartsWith(Cmd, WildcardCmd(p) \o " ") => last.outcome = "true"
         /\ (Cmd = WildcardCmd(p) /\ OnlyStored(p)) => last.outcome = "false"

\* "git diff" was looked up in a store holding only Bash(git diff *): no
\* match.
C12_Witness ==
  /\ last.op = "lookup"
  /\ OnlyStored("Bash(git diff *)")
  /\ Cmd = "git diff"
  /\ last.outcome = "false"

\* Bash(<cmd>:*), and that <cmd>.
IsPrefixClass(pattern) == EndsWith(Body(pattern), ":*")
ClassCmd(pattern) == SubSeq(Body(pattern), 1, Len(Body(pattern)) - 2)
PrefixClasses == {p \in StoredPatterns : IsPrefixClass(p)}

\* C13: prefix-class matching: for every stored pattern Bash(<cmd>:*) a
\* lookup answers true for every command whose text starts with <cmd>
\* (the bare <cmd> and continuations without a separator included), and a
\* store holding only that pattern answers false for every other command;
\* a `*` inside <cmd> is plain text, the body is never matched as a glob.
C13_PrefixClass ==
  last.op = "lookup" =>
  \A p \in PrefixClasses :
    LookupOn(p)
      => /\ StartsWith(Cmd, ClassCmd(p)) => last.outcome = "true"
         /\ (~StartsWith(Cmd, ClassCmd(p)) /\ OnlyStored(p))
              => last.outcome = "false"

\* "go testing" was looked up in a store holding only Bash(go test:*): a
\* match.
C13_Witness ==
  /\ last.op = "lookup"
  /\ OnlyStored("Bash(go test:*)")
  /\ Cmd = "go testing"
  /\ last.outcome = "true"

\* "echo a:b", which the glob echo *:* would match, was looked up in a
\* store holding only Bash(echo *:*): no match.
C13_WitnessNotGlob ==
  /\ last.op = "lookup"
  /\ OnlyStored("Bash(echo *:*)")
  /\ Cmd = "echo a:b"
  /\ fnmatch(Cmd, "echo *:*")
  /\ last.outcome = "false"

\* Bash(* <tail>) with a literal <tail>, and that <tail>.
IsSuffixWildcard(pattern) ==
  /\ StartsWith(Body(pattern), "* ")
  /\ Literal(SubSeq(Body(pattern), 3, Len(Body(pattern))))
WildcardTail(pattern) == SubSeq(Body(pattern), 3, Len(Body(pattern)))
SuffixWildcards == {p \in StoredPatterns : IsSuffixWildcard(p)}

\* C14: suffix-wildcard matching: for every stored pattern Bash(* <tail>),
\* <tail> literal text, a lookup answers true for every command that ends
\* with a space and <tail> and has text before that space, and a store
\* holding only that pattern answers false for the bare <tail>.
C14_SuffixWildcard ==
  last.op = "lookup" =>
  \A p \in SuffixWildcards :
    LookupOn(p)
      => /\ (/\ EndsWith(Cmd, " " \o WildcardTail(p))
             /\ Len(Cmd) > Len(WildcardTail(p)) + 1)
              => last.outcome = "true"
         /\ (Cmd = WildcardTail(p) /\ OnlyStored(p)) => last.outcome = "false"

\* "--version" was looked up in a store holding only Bash(* --version): no
\* match.
C14_Witness ==
  /\ last.op = "lookup"
  /\ OnlyStored("Bash(* --version)")
  /\ Cmd = "--version"
  /\ last.outcome = "false"

\* The places of " * " in the body of a pattern with literal text on both
\* sides: Bash(<head> * <tail>).
MiddleSplits(pattern) ==
  {i \in 1..(Len(Body(pattern)) - 2) :
     /\ SubSeq(Body(pattern), i, i + 2) = " * "
     /\ Literal(SubSeq(Body(pattern), 1, i - 1))
     /\ Literal(SubSeq(Body(pattern), i + 3, Len(Body(pattern))))}
IsMiddleWildcard(pattern) == MiddleSplits(pattern) # {}
WildcardHead(pattern) ==
  SubSeq(Body(pattern), 1, (CHOOSE i \in MiddleSplits(pattern) : TRUE) - 1)
WildcardEnd(pattern) ==
  SubSeq(Body(pattern), (CHOOSE i \in MiddleSplits(pattern) : TRUE) + 3,
         Len(Body(pattern)))

MiddleWildcards == {p \in StoredPatterns : IsMiddleWildcard(p)}

\* C15: middle-wildcard matching: a store holding only Bash(<head> * <tail>),
\* <head> and <tail> literal text, answers true to a lookup only for a
\* command that starts with <head> and a space and ends with a space and
\* <tail>; a command lacking either half gets false.
C15_MiddleWildcard ==
  last.op = "lookup" =>
  \A p \in MiddleWildcards :
    OnlyStored(p)
      => (last.outcome = "true"
            => /\ StartsWith(Cmd, WildcardHead(p) \o " ")
               /\ EndsWith(Cmd, " " \o WildcardEnd(p)))
         /\ last.outcome \in {"true", "false"}

\* "git checkout feature" was looked up in a store holding only
\* Bash(git * main): no match, though the first half is there.
C15_Witness ==
  /\ last.op = "lookup"
  /\ OnlyStored("Bash(git * main)")
  /\ Cmd = "git checkout feature"
  /\ last.outcome = "false"

\* "git checkout main" was looked up in the same store: a match.
C15_WitnessMatch ==
  /\ last.op = "lookup"
  /\ OnlyStored("Bash(git * main)")
  /\ Cmd = "git checkout main"
  /\ last.outcome = "true"

\* C16: whitelist reads tolerate any bad file: when the resolved file is
\* absent, unreadable, not JSON, or JSON without a permissions.allow list
\* inside two objects, a lookup answers false, an append of an eligible
\* pattern whose write succeeds leaves a store holding just that pattern,
\* and a decision that does not get to the classifier does not crash.
C16_BadFileTolerated ==
  ~WellFormed(PreFile)
    => /\ last.op = "lookup" => last.outcome = "false"
       /\ (last.op = "append" /\ Eligible /\ last.io = "ok")
            => /\ last.outcome = "return"
               /\ Stored(PostFile) = <<last.pattern>>
       /\ (BashDecision /\ ~last.llmCalled) => last.outcome # "Crash"

\* An append got to write_text and returned.
AppendSucceeded == AppendReturned /\ last.wrote

\* C17: a successful append leaves a whole well-formed document that holds
\* every key the file held beside permissions.allow, at the top level and
\* inside permissions, and the list that was read followed by the new
\* pattern.
C17_AppendPreservesDocument ==
  AppendSucceeded
    => /\ WellFormed(PostFile)
       /\ PostFile.extra = PreFile.extra
       /\ PostFile.pextra = PreFile.pextra
       /\ PostFile.allow = Stored(PreFile) \o <<AppendedPattern>>

\* A pattern was appended to a file that held keys beside permissions,
\* keys beside allow, and a pattern.
C17_Witness ==
  /\ AppendSucceeded
  /\ PreFile.extra # {}
  /\ PreFile.pextra # {}
  /\ Len(Stored(PreFile)) >= 1
  /\ PostFile.extra = PreFile.extra
  /\ PostFile.pextra = PreFile.pextra
  /\ Len(PostFile.allow) = Len(Stored(PreFile)) + 1

\* The action kinds the claim lists: always-allow and always-escalate.
FastTracked ==
  {"Read", "Glob", "Grep", "WebSearch", "WebFetch", "Task", "Skill"}

\* C18: a request for a tool of the always-allow set (Read, Glob, Grep,
\* WebSearch, WebFetch) or the always-escalate set (Task, Skill) is
\* deferred without a rule check, a store lookup, an append or a classifier
\* call; no settings file is read and the store is unchanged.
C18_FastTrackDefers ==
  (/\ last.op = "decide"
   /\ last.input.shape = "object"
   /\ last.input.tool_name \in FastTracked)
    => /\ last.outcome = "Defer"
       /\ ~last.rulesCalled
       /\ ~last.lookupCalled
       /\ ~last.llmCalled
       /\ ~last.appendCalled
       /\ last.reads = {}
       /\ ~last.wrote
       /\ StoreUnchanged

\* A Skill request was deferred over a settings file whose lookup would
\* raise.
C18_Witness ==
  /\ last.op = "decide"
  /\ last.input.tool_name = "Skill"
  /\ PreFile.kind = "nonobject"
  /\ last.outcome = "Defer"
  /\ StoreUnchanged

\* C19: store path resolution: when the project-local file exists, lookup
\* and append read and write it alone and the global file is neither read
\* nor changed; when it does not exist they read and write the global file
\* alone, a successful append creates the global file if it was absent, and
\* the project-local file is never created.
C19_PathResolution ==
  last.op \in {"decide", "append", "lookup"}
    => IF Exists(last.preProject)
       THEN /\ last.reads \subseteq {"project"}
            /\ global = last.preGlobal
            /\ AppendSucceeded
                 => PatternPresent(Stored(project), AppendedPattern)
            /\ (last.op = "lookup" /\ last.outcome = "true")
                 => \E i \in 1..Len(Stored(last.preProject)) :
                      Cmd \in Approved[Stored(last.preProject)[i]]
       ELSE /\ last.reads \subseteq {"global"}
            /\ project = last.preProject
            /\ AppendSucceeded
                 => PatternPresent(Stored(global), AppendedPattern)
            /\ (last.op = "lookup" /\ last.outcome = "true")
                 => \E i \in 1..Len(Stored(last.preGlobal)) :
                      Cmd \in Approved[Stored(last.preGlobal)[i]]

\* A pattern was appended to the project-local file while a global file
\* with a list of its own stayed as it was.
C19_Witness ==
  /\ AppendSucceeded
  /\ Exists(last.preProject)
  /\ WellFormed(last.preGlobal)
  /\ Len(Stored(last.preGlobal)) >= 1
  /\ global = last.preGlobal
  /\ Stored(project) = Stored(last.preProject) \o <<AppendedPattern>>

\* With no project-local file, an append created the global file that was
\* absent and no project-local file appeared.
C19_WitnessGlobalCreated ==
  /\ AppendSucceeded
  /\ ~Exists(last.preProject)
  /\ ~Exists(last.preGlobal)
  /\ ~Exists(project)
  /\ Stored(global) = <<AppendedPattern>>

\* A command that a pattern of the global file matches was looked up while
\* a project-local file existed: no match.
C19_WitnessShadowed ==
  /\ last.op = "lookup"
  /\ Exists(last.preProject)
  /\ \E i \in 1..Len(Stored(last.preGlobal)) :
       Cmd \in Approved[Stored(last.preGlobal)[i]]
  /\ last.outcome = "false"

\* The request on stdin is not JSON, is JSON but not an object, or is an
\* object without a tool name.
MalformedInput ==
  \/ last.input.shape \in {"unparseable", "nonobject"}
  \/ last.input.shape = "object" /\ last.input.tool_name = ""

\* C20: a malformed request is deferred: no output, no failure, no
\* classifier call, and the store is neither read nor written.
C20_MalformedInputDefers ==
  (last.op = "decide" /\ MalformedInput)
    => /\ last.outcome = "Defer"
       /\ ~last.llmCalled
       /\ ~last.lookupCalled
       /\ ~last.appendCalled
       /\ last.reads = {}
       /\ StoreUnchanged

\* A pattern the resolved file held before the operation matches the
\* command.
StoredMatch ==
  \E i \in 1..Len(Stored(PreFile)) : Cmd \in Approved[Stored(PreFile)[i]]

\* The rule classifier has no verdict on the command: no Unsafe hit and no
\* SafeBase hit.
UnknownToRules == ~RuleHits[Cmd].unsafe /\ ~RuleHits[Cmd].safe

\* C21: in a decision on a well-formed request the external classifier is
\* invoked if and only if the tool is not fast-tracked and either is not
\* Bash, or is Bash with a command that has no Unsafe and no SafeBase hit
\* and that no stored pattern matches; for a Bash command the call comes
\* after the rule checks and the lookup.
C21_ClassifierInvokedIff ==
  (last.op = "decide" /\ last.input.shape = "object")
    => /\ last.llmCalled
            <=> /\ last.input.tool_name \notin FastTracked
                /\ \/ last.input.tool_name # "Bash"
                   \/ UnknownToRules /\ ~StoredMatch
       /\ (last.llmCalled /\ last.input.tool_name = "Bash")
            => last.rulesCalled /\ last.lookupCalled

\* C22: a decision changes the store only when the tool is Bash, the
\* classifier returned safe=true, the pattern that came with the verdict is
\* neither empty nor "none", the command is not empty and hits neither the
\* Unsafe nor the NeverWhitelist rule set, and the store did not hold the
\* pattern; every other decision leaves both files as they were.
C22_StoreModifiedOnlyWhen ==
  (last.op = "decide" /\ ~StoreUnchanged)
    => /\ last.input.shape = "object"
       /\ last.input.tool_name = "Bash"
       /\ SafeVerdict
       /\ AppendedPattern \notin {"", "none"}
       /\ Cmd # ""
       /\ ~RuleHits[Cmd].unsafe
       /\ ~RuleHits[Cmd].never
       /\ ~PatternPresent(Stored(PreFile), AppendedPattern)

\* The pairs learned by earlier decisions whose pattern the resolved store
\* still held when this operation began.
LearnedBefore ==
  {lp \in learned :
     WellFormed(PreFile) /\ PatternPresent(Stored(PreFile), lp[2])}

\* C23: no re-classification after learning: once a decision on a Bash
\* command got safe=true with a pattern that matches the command and the
\* pattern was written, a later decision on the same command over a store
\* that still holds the pattern does not call the classifier: it ends
\* deferred at the lookup.
C23_NoReclassification ==
  (BashDecision /\ \E lp \in LearnedBefore : lp[1] = Cmd)
    => /\ ~last.llmCalled
       /\ last.lookupCalled
       /\ last.outcome = "Defer"
       /\ StoreUnchanged

\* "echo hi", learned earlier with Bash(echo hi) behind another pattern,
\* was decided again and deferred without a classifier call.
C23_Witness ==
  /\ BashDecision
  /\ Cmd = "echo hi"
  /\ <<"echo hi", "Bash(echo hi)">> \in LearnedBefore
  /\ Len(Stored(PreFile)) >= 2
  /\ ~last.llmCalled
  /\ last.outcome = "Defer"

\* The commands the rule classifier keeps off the whitelist: an Unsafe or a
\* NeverWhitelist hit.
Vetoed == {c \in Commands : RuleHits[c].unsafe \/ RuleHits[c].never}

\* The patterns that match a vetoed command.
CoversVetoed == {p \in StoredPatterns : Approved[p] \cap Vetoed # {}}

\* C24: starting from an empty store, after any sequence of decisions with
\* any classifier answers, no stored pattern matches a command with an
\* Unsafe or a NeverWhitelist hit.
C24_NoStoredPatternCoversVetoed ==
  \A i \in 1..Len(Stored(global)) : Stored(global)[i] \notin CoversVetoed

\* Both processes have left add_to_whitelist and at least one has written.
RaceOver ==
  /\ race.proc # <<>>
  /\ \A p \in Procs : race.proc[p].pc = "done"
  /\ race.writer # 0

\* No pattern stands twice in a list.
DuplicateFree(list) ==
  \A i, j \in 1..Len(list) : list[i] = list[j] => i = j

====
